---- MODULE Spec2Model ----
(***************************************************************************)
(* AuthStateService of angular-auth-oidc-client (src/unnamed/part_000,     *)
(* lines 47-245) as a state machine.  The state is the per-configuration   *)
(* storage the service reads and writes through StoragePersistenceService, *)
(* the BehaviorSubject authenticatedInternal$ with one subscriber of       *)
(* authenticated$, and the clock.  Every public method is one action; the  *)
(* outcome of the last call (return value, ordered collaborator calls,     *)
(* notifications delivered) is kept in call / ret / trace / notified.      *)
(***************************************************************************)
EXTENDS Integers, Sequences, FiniteSets, TLC

VARIABLES
    storage,                \* configId -> stored auth state of that configuration
    now,                    \* new Date().valueOf(), epoch milliseconds
    authenticatedInternal,  \* current value of the BehaviorSubject
    nextRef,                \* identity given to the next allocated result object
    lastEmitted,            \* distinctUntilChanged: the value it let through last
    call,                   \* the last call: [op, arg]
    ret,                    \* what the last call returned
    trace,                  \* collaborator calls made by the last call, in order
    notified,               \* notifications the subscriber got during the last call
    rules                   \* the registered validation rules: rule -> configId -> result

vars == <<storage, now, authenticatedInternal, nextRef, lastEmitted, call, ret, trace, notified, rules>>

----------------------------------------------------------------------------
(* Bounds of the model *)

MaxListLen == 2      \* longest configuration list passed to setAuthenticatedAndFireEvent
MaxTicks == 2        \* the clock advances this many times
MaxExpiresIn == 2    \* largest authResult.expires_in (seconds)
MaxObjects == 2      \* result objects allocated in one run
MaxMessages == 2     \* most messages in one RuleValidationResult

TickSteps == {500}
AllConfigIds == {"c1", "c2"}
SingleConfigIds == {"c1"}

NULL == "<null>"     \* JavaScript null / undefined
AccessTokens == {"", "at"}
IdTokens == {"", "id.exp1"}
EncodedAccessTokens == {"a%20t", "%"}   \* percent-encoded, and malformed
RefreshTokens == {"", "rt"}
Skews == {0, 1}

MsPerSecond == 1000

ConfigIds == DOMAIN storage

\* OpenIdConfiguration, the fields this service reads
Configurations ==
    [configId : ConfigIds,
     enableIdTokenExpiredValidationInRenew : BOOLEAN,
     renewTimeBeforeTokenExpiresInSeconds : Skews]

ConfigLists == UNION {[1..n -> ConfigIds] : n \in 0..MaxListLen}

\* AuthResult as setAuthorizationData reads it: absent, or with expires_in
\* absent (<<>>) or a number of seconds (<<n>>)
AuthResults ==
    {<<>>} \cup {<<[expires_in |-> e]>> : e \in {<<>>} \cup {<<n>> : n \in 0..MaxExpiresIn}}

\* JavaScript truthiness of a string-or-null value
Truthy(v) == v # NULL /\ v # ""

----------------------------------------------------------------------------
(* StoragePersistenceService *)

EmptyEntry ==
    [authzData |-> NULL, idToken |-> NULL, refreshToken |-> NULL,
     access_token_expires_at |-> <<>>]

getAccessToken(st, id) == st[id].authzData

getIdToken(st, id) == st[id].idToken

getRefreshToken(st, id) == st[id].refreshToken

\* the stored authentication result, which carries the id and refresh tokens
getAuthenticationResult(st, id) ==
    IF st[id].idToken = NULL /\ st[id].refreshToken = NULL
    THEN NULL
    ELSE [id_token |-> st[id].idToken, refresh_token |-> st[id].refreshToken]

readAccessTokenExpiresAt(st, id) == st[id].access_token_expires_at

writeAuthzData(st, id, accessToken) == [st EXCEPT ![id].authzData = accessToken]

writeAccessTokenExpiresAt(st, id, value) == [st EXCEPT ![id].access_token_expires_at = <<value>>]

writeIdToken(st, id, idToken) == [st EXCEPT ![id].idToken = idToken]

writeRefreshToken(st, id, refreshToken) == [st EXCEPT ![id].refreshToken = refreshToken]

resetAuthStateInStorage(st, id) == [st EXCEPT ![id] = EmptyEntry]

----------------------------------------------------------------------------
(* TokenValidationService *)

\* the exp claim (seconds) of an id token; <<>> when the token has none
IdTokenExpClaim(token) == IF token = "id.exp1" THEN <<1>> ELSE <<>>

hasIdTokenExpired(token, skewSeconds, t) ==
    IF ~Truthy(token) \/ IdTokenExpClaim(token) = <<>>
    THEN TRUE
    ELSE IdTokenExpClaim(token)[1] * MsPerSecond - skewSeconds * MsPerSecond <= t

validateAccessTokenNotExpired(accessTokenExpiresAt, skewSeconds, t) ==
    IF accessTokenExpiresAt = <<>>
    THEN TRUE
    ELSE accessTokenExpiresAt[1] - skewSeconds * MsPerSecond > t

----------------------------------------------------------------------------
(* Date *)

\* Date.prototype.toUTCString prints whole seconds: the string names this second
toUTCString(t) == t \div MsPerSecond

\* new Date(string).valueOf() of such a string
DateParse(s) == s * MsPerSecond

\* what a getter's caller sees when decodeURIComponent throws
URIError == "<URIError>"

\* decodeURIComponent: %20 becomes a space, a lone % is malformed, a string
\* without escapes is returned as it is
decodeURIComponent(token) ==
    IF token = "a%20t" THEN "a t"
    ELSE IF token = "%" THEN URIError
    ELSE token

----------------------------------------------------------------------------
(* AuthStateService: the value objects *)

DEFAULT_AUTHRESULT == [isAuthenticated |-> FALSE, allConfigsAuthenticated |-> <<>>]

\* The service and its collaborators while one call runs
Service ==
    [storage |-> storage,
     authenticatedInternal |-> authenticatedInternal,
     nextRef |-> nextRef,
     lastEmitted |-> lastEmitted,
     trace |-> <<>>,
     notified |-> <<>>]

\* JavaScript === on two objects: the same object
StrictEquals(a, b) == a.ref = b.ref

\* distinctUntilChanged() without a comparator lets a value through unless it
\* is === the previous one
distinctUntilChanged(previous, value) == ~StrictEquals(previous, value)

\* authenticatedInternal$.next(result), with the subscriber of authenticated$
next(s, result) ==
    LET value == [ref |-> s.nextRef, result |-> result]
        passes == distinctUntilChanged(s.lastEmitted, value)
    IN  [s EXCEPT !.authenticatedInternal = value,
                  !.nextRef = @ + 1,
                  !.lastEmitted = IF passes THEN value ELSE @,
                  !.notified = IF passes
                               THEN Append(@, [result |-> result, storage |-> s.storage])
                               ELSE @,
                  !.trace = Append(@, "authenticatedInternal$.next")]

----------------------------------------------------------------------------
(* AuthStateService: queries, each returning [ret, trace] *)

\* || written for &&
isAuthenticated_or(st, id) ==
    IF Truthy(getAccessToken(st, id))
    THEN [ret |-> TRUE, trace |-> <<"getAccessToken">>]
    ELSE [ret |-> Truthy(getIdToken(st, id)), trace |-> <<"getAccessToken", "getIdToken">>]

isAuthenticated(st, id) ==
    IF ~Truthy(getAccessToken(st, id))
    THEN [ret |-> FALSE, trace |-> <<"getAccessToken">>]
    ELSE [ret |-> Truthy(getIdToken(st, id)), trace |-> <<"getAccessToken", "getIdToken">>]

\* the feature flag is not looked at
hasIdTokenExpiredAndRenewCheckIsEnabled_noFlag(st, configuration, t) ==
    LET tokenToCheck == getIdToken(st, configuration.configId)
        idTokenExpired ==
            hasIdTokenExpired(tokenToCheck, configuration.renewTimeBeforeTokenExpiresInSeconds, t)
    IN  [ret |-> idTokenExpired,
         trace |-> <<"getIdToken", "hasIdTokenExpired">>
                   \o (IF idTokenExpired THEN <<"fireEvent:IdTokenExpired">> ELSE <<>>)]

hasIdTokenExpiredAndRenewCheckIsEnabled(st, configuration, t) ==
    IF ~configuration.enableIdTokenExpiredValidationInRenew
    THEN [ret |-> FALSE, trace |-> <<>>]
    ELSE LET tokenToCheck == getIdToken(st, configuration.configId)
             idTokenExpired ==
                 hasIdTokenExpired(tokenToCheck, configuration.renewTimeBeforeTokenExpiresInSeconds, t)
         IN  [ret |-> idTokenExpired,
              trace |-> <<"getIdToken", "hasIdTokenExpired">>
                        \o (IF idTokenExpired THEN <<"fireEvent:IdTokenExpired">> ELSE <<>>)]

decodeURIComponentSafely(token) ==
    IF Truthy(token) THEN decodeURIComponent(token) ELSE ""

\* the guard on isAuthenticated is missing
AuthStateService_getAccessToken_noGuard(st, id) ==
    [ret |-> decodeURIComponentSafely(getAccessToken(st, id)),
     trace |-> <<"getAccessToken", "decodeURIComponentSafely">>]

AuthStateService_getAccessToken(st, id) ==
    LET a == isAuthenticated(st, id)
    IN  IF ~a.ret
        THEN [ret |-> NULL, trace |-> a.trace]
        ELSE [ret |-> decodeURIComponentSafely(getAccessToken(st, id)),
              trace |-> a.trace \o <<"getAccessToken", "decodeURIComponentSafely">>]

\* the empty string, not null, is the answer when not authenticated
AuthStateService_getIdToken_emptyString(st, id) ==
    LET a == isAuthenticated(st, id)
    IN  IF ~a.ret
        THEN [ret |-> "", trace |-> a.trace]
        ELSE [ret |-> decodeURIComponentSafely(getIdToken(st, id)),
              trace |-> a.trace \o <<"getIdToken", "decodeURIComponentSafely">>]

AuthStateService_getIdToken(st, id) ==
    LET a == isAuthenticated(st, id)
    IN  IF ~a.ret
        THEN [ret |-> NULL, trace |-> a.trace]
        ELSE [ret |-> decodeURIComponentSafely(getIdToken(st, id)),
              trace |-> a.trace \o <<"getIdToken", "decodeURIComponentSafely">>]

AuthStateService_getRefreshToken(st, id) ==
    LET a == isAuthenticated(st, id)
    IN  IF ~a.ret
        THEN [ret |-> NULL, trace |-> a.trace]
        ELSE [ret |-> decodeURIComponentSafely(getRefreshToken(st, id)),
              trace |-> a.trace \o <<"getRefreshToken", "decodeURIComponentSafely">>]

AuthStateService_getAuthenticationResult(st, id) ==
    LET a == isAuthenticated(st, id)
    IN  IF ~a.ret
        THEN [ret |-> NULL, trace |-> a.trace]
        ELSE [ret |-> getAuthenticationResult(st, id),
              trace |-> a.trace \o <<"getAuthenticationResult">>]

\* the event of the other query is fired
hasAccessTokenExpiredIfExpiryExists_otherEvent(st, configuration, t) ==
    LET accessTokenExpiresIn == readAccessTokenExpiresAt(st, configuration.configId)
        accessTokenHasNotExpired ==
            validateAccessTokenNotExpired(
                accessTokenExpiresIn, configuration.renewTimeBeforeTokenExpiresInSeconds, t)
        hasExpired == ~accessTokenHasNotExpired
    IN  [ret |-> hasExpired,
         trace |-> <<"read:access_token_expires_at", "validateAccessTokenNotExpired">>
                   \o (IF hasExpired THEN <<"fireEvent:IdTokenExpired">> ELSE <<>>)]

hasAccessTokenExpiredIfExpiryExists(st, configuration, t) ==
    LET accessTokenExpiresIn == readAccessTokenExpiresAt(st, configuration.configId)
        accessTokenHasNotExpired ==
            validateAccessTokenNotExpired(
                accessTokenExpiresIn, configuration.renewTimeBeforeTokenExpiresInSeconds, t)
        hasExpired == ~accessTokenHasNotExpired
    IN  [ret |-> hasExpired,
         trace |-> <<"read:access_token_expires_at", "validateAccessTokenNotExpired">>
                   \o (IF hasExpired THEN <<"fireEvent:TokenExpired">> ELSE <<>>)]

\* the three checks are computed up front and combined afterwards
areAuthStorageTokensValid_eager(st, configuration, t) ==
    LET a == isAuthenticated(st, configuration.configId)
        i == hasIdTokenExpiredAndRenewCheckIsEnabled(st, configuration, t)
        x == hasAccessTokenExpiredIfExpiryExists(st, configuration, t)
    IN  [ret |-> a.ret /\ ~i.ret /\ ~x.ret, trace |-> a.trace \o i.trace \o x.trace]

\* the access token is checked before the id token
areAuthStorageTokensValid_accessFirst(st, configuration, t) ==
    LET a == isAuthenticated(st, configuration.configId)
        i == hasIdTokenExpiredAndRenewCheckIsEnabled(st, configuration, t)
        x == hasAccessTokenExpiredIfExpiryExists(st, configuration, t)
    IN  IF ~a.ret
        THEN [ret |-> FALSE, trace |-> a.trace]
        ELSE IF x.ret
        THEN [ret |-> FALSE, trace |-> a.trace \o x.trace]
        ELSE IF i.ret
        THEN [ret |-> FALSE, trace |-> a.trace \o x.trace \o i.trace]
        ELSE [ret |-> TRUE, trace |-> a.trace \o x.trace \o i.trace]

areAuthStorageTokensValid(st, configuration, t) ==
    LET a == isAuthenticated(st, configuration.configId)
        i == hasIdTokenExpiredAndRenewCheckIsEnabled(st, configuration, t)
        x == hasAccessTokenExpiredIfExpiryExists(st, configuration, t)
    IN  IF ~a.ret
        THEN [ret |-> FALSE, trace |-> a.trace]
        ELSE IF i.ret
        THEN [ret |-> FALSE, trace |-> a.trace \o i.trace]
        ELSE IF x.ret
        THEN [ret |-> FALSE, trace |-> a.trace \o i.trace \o x.trace]
        ELSE [ret |-> TRUE, trace |-> a.trace \o i.trace \o x.trace]

----------------------------------------------------------------------------
(* AuthStateService: composing the aggregate, each returning [result, trace] *)

RECURSIVE Flatten(_)
Flatten(seqs) == IF seqs = <<>> THEN <<>> ELSE Head(seqs) \o Flatten(Tail(seqs))

\* some() written for every()
checkAllConfigsIfTheyAreAuthenticated_some(st, configurations) ==
    LET checks == [i \in 1..Len(configurations) |-> isAuthenticated(st, configurations[i])]
        allConfigsAuthenticated ==
            [i \in 1..Len(configurations) |->
                [configId |-> configurations[i], isAuthenticated |-> checks[i].ret]]
        some == \E i \in 1..Len(configurations) : allConfigsAuthenticated[i].isAuthenticated
    IN  [result |-> [isAuthenticated |-> some, allConfigsAuthenticated |-> allConfigsAuthenticated],
         trace |-> Flatten([i \in 1..Len(configurations) |-> checks[i].trace])]

checkAllConfigsIfTheyAreAuthenticated(st, configurations) ==
    LET checks == [i \in 1..Len(configurations) |-> isAuthenticated(st, configurations[i])]
        allConfigsAuthenticated ==
            [i \in 1..Len(configurations) |->
                [configId |-> configurations[i], isAuthenticated |-> checks[i].ret]]
        every == \A i \in 1..Len(configurations) : allConfigsAuthenticated[i].isAuthenticated
    IN  [result |-> [isAuthenticated |-> every, allConfigsAuthenticated |-> allConfigsAuthenticated],
         trace |-> Flatten([i \in 1..Len(configurations) |-> checks[i].trace])]

\* without the single-configuration branch
composeAuthenticatedResult_noShortcut(st, configurations) ==
    checkAllConfigsIfTheyAreAuthenticated(st, configurations)

composeAuthenticatedResult(st, configurations) ==
    IF Len(configurations) = 1
    THEN [result |-> [isAuthenticated |-> TRUE,
                      allConfigsAuthenticated |->
                          <<[configId |-> configurations[1], isAuthenticated |-> TRUE]>>],
          trace |-> <<>>]
    ELSE checkAllConfigsIfTheyAreAuthenticated(st, configurations)

composeUnAuthenticatedResult(st, configurations) ==
    IF Len(configurations) = 1
    THEN [result |-> [isAuthenticated |-> FALSE,
                      allConfigsAuthenticated |->
                          <<[configId |-> configurations[1], isAuthenticated |-> FALSE]>>],
          trace |-> <<>>]
    ELSE checkAllConfigsIfTheyAreAuthenticated(st, configurations)

----------------------------------------------------------------------------
(* AuthStateService: the methods that change state, each mapping the service *)
(* to the service after the call *)

setAuthenticatedAndFireEvent(s, configurations) ==
    LET r == composeAuthenticatedResult(s.storage, configurations)
    IN  next([s EXCEPT !.trace = @ \o r.trace], r.result)

\* the storage is not reset
setUnauthenticatedAndFireEvent_noReset(s, id) ==
    LET r == composeUnAuthenticatedResult(s.storage, <<id>>)
    IN  next([s EXCEPT !.trace = @ \o r.trace], r.result)

setUnauthenticatedAndFireEvent(s, id) ==
    LET s1 == [s EXCEPT !.storage = resetAuthStateInStorage(@, id),
                        !.trace = Append(@, "resetAuthStateInStorage")]
        r == composeUnAuthenticatedResult(s1.storage, <<id>>)
    IN  next([s1 EXCEPT !.trace = @ \o r.trace], r.result)

\* authResult?.expires_in is truthy
HasExpiresIn(authResult) ==
    /\ authResult # <<>>
    /\ authResult[1].expires_in # <<>>
    /\ authResult[1].expires_in[1] # 0

\* without expires_in the stored expiry is removed
persistAccessTokenExpirationTime_clears(s, authResult, id, t) ==
    IF HasExpiresIn(authResult)
    THEN LET accessTokenExpiryTime ==
                 DateParse(toUTCString(t)) + authResult[1].expires_in[1] * MsPerSecond
         IN  [s EXCEPT !.storage = writeAccessTokenExpiresAt(@, id, accessTokenExpiryTime),
                       !.trace = Append(@, "write:access_token_expires_at")]
    ELSE [s EXCEPT !.storage = [@ EXCEPT ![id].access_token_expires_at = <<>>],
                   !.trace = Append(@, "remove:access_token_expires_at")]

\* new Date().valueOf() without the round trip through toUTCString
persistAccessTokenExpirationTime_ms(s, authResult, id, t) ==
    IF HasExpiresIn(authResult)
    THEN LET accessTokenExpiryTime == t + authResult[1].expires_in[1] * MsPerSecond
         IN  [s EXCEPT !.storage = writeAccessTokenExpiresAt(@, id, accessTokenExpiryTime),
                       !.trace = Append(@, "write:access_token_expires_at")]
    ELSE s

persistAccessTokenExpirationTime(s, authResult, id, t) ==
    IF HasExpiresIn(authResult)
    THEN LET accessTokenExpiryTime ==
                 DateParse(toUTCString(t)) + authResult[1].expires_in[1] * MsPerSecond
         IN  [s EXCEPT !.storage = writeAccessTokenExpiresAt(@, id, accessTokenExpiryTime),
                       !.trace = Append(@, "write:access_token_expires_at")]
    ELSE s

\* the aggregate is pushed before the storage is written
setAuthorizationData_pushFirst(s, accessToken, authResult, id, t) ==
    LET s0 == setAuthenticatedAndFireEvent(s, <<id>>)
        s1 == [s0 EXCEPT !.storage = writeAuthzData(@, id, accessToken),
                         !.trace = Append(@, "write:authzData")]
    IN  persistAccessTokenExpirationTime(s1, authResult, id, t)

setAuthorizationData(s, accessToken, authResult, id, t) ==
    LET s1 == [s EXCEPT !.storage = writeAuthzData(@, id, accessToken),
                        !.trace = Append(@, "write:authzData")]
        s2 == persistAccessTokenExpirationTime(s1, authResult, id, t)
    IN  setAuthenticatedAndFireEvent(s2, <<id>>)

----------------------------------------------------------------------------
(* The state machine *)

DefaultValue == [ref |-> 0, result |-> DEFAULT_AUTHRESULT]

ServiceInit(ids) ==
    /\ storage = [id \in ids |-> EmptyEntry]
    /\ now = 0
    /\ authenticatedInternal = DefaultValue
    /\ nextRef = 1
    /\ lastEmitted = DefaultValue
    /\ call = [op |-> "constructor", arg |-> <<>>]
    /\ ret = NULL
    /\ trace = <<>>
    /\ notified = <<[result |-> DEFAULT_AUTHRESULT, storage |-> [id \in ids |-> EmptyEntry]]>>

\* AuthStateService alone: no validation rules are registered
InitWith(ids) ==
    /\ ServiceInit(ids)
    /\ rules = <<>>

Init == InitWith(AllConfigIds)

InitSingle == InitWith(SingleConfigIds)

\* a call that changed the service to s and returned nothing
Commit(s, op, arg) ==
    /\ storage' = s.storage
    /\ authenticatedInternal' = s.authenticatedInternal
    /\ nextRef' = s.nextRef
    /\ lastEmitted' = s.lastEmitted
    /\ trace' = s.trace
    /\ notified' = s.notified
    /\ call' = [op |-> op, arg |-> arg]
    /\ ret' = NULL
    /\ UNCHANGED <<now, rules>>

\* a query that returned r.ret
Answer(r, op, arg) ==
    /\ ret' = r.ret
    /\ trace' = r.trace
    /\ notified' = <<>>
    /\ call' = [op |-> op, arg |-> arg]
    /\ UNCHANGED <<storage, now, authenticatedInternal, nextRef, lastEmitted, rules>>

Tick ==
    \E d \in TickSteps :
        /\ now + d <= MaxTicks * d
        /\ now' = now + d
        /\ call' = [op |-> "tick", arg |-> <<>>]
        /\ ret' = NULL
        /\ trace' = <<>>
        /\ notified' = <<>>
        /\ UNCHANGED <<storage, authenticatedInternal, nextRef, lastEmitted, rules>>

\* the login callback (outside this service) stores the id token it received
StoreIdToken ==
    \E id \in ConfigIds, idToken \in IdTokens :
        /\ storage[id].idToken # idToken
        /\ Commit([Service EXCEPT !.storage = writeIdToken(@, id, idToken)],
                  "storeIdToken", <<id, idToken>>)

SetAuthenticatedAndFireEvent ==
    \E configurations \in ConfigLists :
        /\ nextRef <= MaxObjects
        /\ Commit(setAuthenticatedAndFireEvent(Service, configurations),
                  "setAuthenticatedAndFireEvent", configurations)

SetUnauthenticatedAndFireEvent ==
    \E id \in ConfigIds :
        /\ nextRef <= MaxObjects
        /\ Commit(setUnauthenticatedAndFireEvent(Service, id),
                  "setUnauthenticatedAndFireEvent", id)

SetAuthorizationData ==
    \E accessToken \in AccessTokens, authResult \in AuthResults, id \in ConfigIds :
        /\ nextRef <= MaxObjects
        /\ Commit(setAuthorizationData(Service, accessToken, authResult, id, now),
                  "setAuthorizationData",
                  [accessToken |-> accessToken, authResult |-> authResult,
                   configId |-> id, time |-> now])

IsAuthenticated ==
    \E id \in ConfigIds :
        Answer(isAuthenticated(storage, id), "isAuthenticated", id)

AreAuthStorageTokensValid ==
    \E configuration \in Configurations :
        Answer(areAuthStorageTokensValid(storage, configuration, now),
               "areAuthStorageTokensValid", configuration)

HasIdTokenExpiredAndRenewCheckIsEnabled ==
    \E configuration \in Configurations :
        Answer(hasIdTokenExpiredAndRenewCheckIsEnabled(storage, configuration, now),
               "hasIdTokenExpiredAndRenewCheckIsEnabled", configuration)

HasAccessTokenExpiredIfExpiryExists ==
    \E configuration \in Configurations :
        Answer(hasAccessTokenExpiredIfExpiryExists(storage, configuration, now),
               "hasAccessTokenExpiredIfExpiryExists", configuration)

\* the login callback stores the refresh token it received
StoreRefreshToken ==
    \E id \in ConfigIds, refreshToken \in RefreshTokens :
        /\ storage[id].refreshToken # refreshToken
        /\ Commit([Service EXCEPT !.storage = writeRefreshToken(@, id, refreshToken)],
                  "storeRefreshToken", <<id, refreshToken>>)

\* setAuthorizationData with an access token that holds a percent sign
SetAuthorizationDataEncoded ==
    \E accessToken \in EncodedAccessTokens, id \in ConfigIds :
        /\ nextRef <= MaxObjects
        /\ Commit(setAuthorizationData(Service, accessToken, <<>>, id, now),
                  "setAuthorizationData",
                  [accessToken |-> accessToken, authResult |-> <<>>,
                   configId |-> id, time |-> now])

GetAccessToken ==
    \E id \in ConfigIds :
        Answer(AuthStateService_getAccessToken(storage, id), "getAccessToken", id)

GetIdToken ==
    \E id \in ConfigIds :
        Answer(AuthStateService_getIdToken(storage, id), "getIdToken", id)

GetRefreshToken ==
    \E id \in ConfigIds :
        Answer(AuthStateService_getRefreshToken(storage, id), "getRefreshToken", id)

GetAuthenticationResult ==
    \E id \in ConfigIds :
        Answer(AuthStateService_getAuthenticationResult(storage, id),
               "getAuthenticationResult", id)

\* the service with every active configuration
Next ==
    \/ Tick
    \/ StoreIdToken
    \/ SetAuthenticatedAndFireEvent
    \/ SetUnauthenticatedAndFireEvent
    \/ SetAuthorizationData
    \/ IsAuthenticated

Spec == Init /\ [][Next]_vars

\* the service with one configuration, and the expiry queries
NextSingle ==
    \/ Tick
    \/ StoreIdToken
    \/ SetAuthenticatedAndFireEvent
    \/ SetUnauthenticatedAndFireEvent
    \/ SetAuthorizationData
    \/ IsAuthenticated
    \/ AreAuthStorageTokensValid
    \/ HasIdTokenExpiredAndRenewCheckIsEnabled
    \/ HasAccessTokenExpiredIfExpiryExists
    \/ StoreRefreshToken
    \/ SetAuthorizationDataEncoded
    \/ GetAccessToken
    \/ GetIdToken
    \/ GetRefreshToken
    \/ GetAuthenticationResult

SpecSingle == InitSingle /\ [][NextSingle]_vars

----------------------------------------------------------------------------
(* ConfigValidationService (src/unnamed/part_000, lines 8-45).  A          *)
(* configuration is named by its configId.  The rules are registered once:  *)
(* rules[r][c] is what rule r finds for configuration c, its level and how  *)
(* many messages.  trace holds, in order, every rule call (kind "rule",     *)
(* the rule, what it was handed) and every logger call (kind "logError" or  *)
(* "logWarning", the configId, the message).                                *)

Levels == {"error", "warning"}

\* the rules of ./rules in registration order, and the texts of their messages
RuleNames == <<"ruleA", "ruleB">>

Msg == [ruleA |-> <<"A1", "A2", "A3">>, ruleB |-> <<"B1", "B2", "B3">>]

DuplicateRule == "ensureNoDuplicatedConfigsRule"

RuleOutcomes == [level : Levels, count : 0..MaxMessages]

RuleTables == [{RuleNames[i] : i \in DOMAIN RuleNames} -> [AllConfigIds -> RuleOutcomes]]

allRules == RuleNames

allMultipleConfigRules == <<DuplicateRule>> \o RuleNames

POSITIVE_VALIDATION_RESULT == [level |-> "none", messages |-> <<>>]

\* the multi-config rule: an error when two of the configurations it is
\* handed share a configId
ensureNoDuplicatedConfigsRule(passedConfigs) ==
    IF \E i, j \in DOMAIN passedConfigs : i # j /\ passedConfigs[i] = passedConfigs[j]
    THEN [level |-> "error", messages |-> <<"duplicate configId">>]
    ELSE POSITIVE_VALIDATION_RESULT

\* rule(handed): the RuleValidationResult of a registered rule
ApplyRule(tbl, rule, handed) ==
    IF rule = DuplicateRule
    THEN ensureNoDuplicatedConfigsRule(handed)
    ELSE LET o == tbl[rule][handed[1]]
         IN  [level |-> o.level, messages |-> SubSeq(Msg[rule], 1, o.count)]

\* val.concat(acc) written for acc.concat(val)
getAllMessagesOfType_prepend(type, results) ==
    LET OfType(x) == x.level = type
        allMessages == [i \in 1..Len(SelectSeq(results, OfType)) |->
                            SelectSeq(results, OfType)[i].messages]
        Rev(q) == [i \in 1..Len(q) |-> q[Len(q) + 1 - i]]
    IN  Flatten(Rev(allMessages))

getAllMessagesOfType(type, results) ==
    LET OfType(x) == x.level = type
        allMessages == [i \in 1..Len(SelectSeq(results, OfType)) |->
                            SelectSeq(results, OfType)[i].messages]
    IN  Flatten(allMessages)

\* every message is counted, not only the errors
processValidationResultsAndGetErrorCount_countsAll(allValidationResults, configId) ==
    LET HasMessages(x) == Len(x.messages) > 0
        allMessages == SelectSeq(allValidationResults, HasMessages)
        allErrorMessages == getAllMessagesOfType("error", allMessages)
        allWarnings == getAllMessagesOfType("warning", allMessages)
    IN  [ret |-> Len(allErrorMessages) + Len(allWarnings),
         trace |-> [i \in 1..Len(allErrorMessages) |->
                       [kind |-> "logError", who |-> configId, what |-> allErrorMessages[i]]]
                   \o [i \in 1..Len(allWarnings) |->
                          [kind |-> "logWarning", who |-> configId, what |-> allWarnings[i]]]]

processValidationResultsAndGetErrorCount(allValidationResults, configId) ==
    LET HasMessages(x) == Len(x.messages) > 0
        allMessages == SelectSeq(allValidationResults, HasMessages)
        allErrorMessages == getAllMessagesOfType("error", allMessages)
        allWarnings == getAllMessagesOfType("warning", allMessages)
    IN  [ret |-> Len(allErrorMessages),
         trace |-> [i \in 1..Len(allErrorMessages) |->
                       [kind |-> "logError", who |-> configId, what |-> allErrorMessages[i]]]
                   \o [i \in 1..Len(allWarnings) |->
                          [kind |-> "logWarning", who |-> configId, what |-> allWarnings[i]]]]

\* each rule is handed passedConfig, the one configuration of this pass
validateConfigInternal(tbl, passedConfig, allRulesToUse) ==
    LET calls == [i \in 1..Len(allRulesToUse) |->
                     [kind |-> "rule", who |-> allRulesToUse[i], what |-> <<passedConfig>>]]
        allValidationResults ==
            [i \in 1..Len(allRulesToUse) |-> ApplyRule(tbl, allRulesToUse[i], <<passedConfig>>)]
        errorCount == processValidationResultsAndGetErrorCount(allValidationResults, passedConfig)
    IN  [ret |-> errorCount.ret = 0, trace |-> calls \o errorCount.trace]

validateConfig(tbl, passedConfig) == validateConfigInternal(tbl, passedConfig, allRules)

\* every() on the configurations themselves: the pass of a configuration
\* after a failing one is not run
RECURSIVE validateConfigs_stopsAtFirstFailure(_, _)
validateConfigs_stopsAtFirstFailure(tbl, passedConfigs) ==
    IF passedConfigs = <<>>
    THEN [ret |-> TRUE, trace |-> <<>>]
    ELSE LET first == validateConfigInternal(tbl, Head(passedConfigs), allMultipleConfigRules)
             rest == validateConfigs_stopsAtFirstFailure(tbl, Tail(passedConfigs))
         IN  IF first.ret
             THEN [ret |-> rest.ret, trace |-> first.trace \o rest.trace]
             ELSE first

validateConfigs(tbl, passedConfigs) ==
    LET result == [j \in 1..Len(passedConfigs) |->
                      validateConfigInternal(tbl, passedConfigs[j], allMultipleConfigRules)]
    IN  [ret |-> \A j \in 1..Len(passedConfigs) : result[j].ret = TRUE,
         trace |-> Flatten([j \in 1..Len(passedConfigs) |-> result[j].trace])]

\* the rules are registered when the application is composed
InitValidation ==
    /\ ServiceInit(AllConfigIds)
    /\ rules \in RuleTables

ValidateConfig ==
    \E passedConfig \in ConfigIds :
        Answer(validateConfig(rules, passedConfig), "validateConfig", passedConfig)

ValidateConfigs ==
    \E passedConfigs \in ConfigLists :
        Answer(validateConfigs(rules, passedConfigs), "validateConfigs", passedConfigs)

NextValidation ==
    \/ ValidateConfig
    \/ ValidateConfigs

SpecValidation == InitValidation /\ [][NextValidation]_vars

----------------------------------------------------------------------------
(* What the claims read *)

Aggregate == authenticatedInternal.result

Entries == Aggregate.allConfigsAuthenticated

\* both tokens are present (non-empty) in storage for configuration id
BothTokensStored(id) ==
    /\ storage[id].authzData \notin {NULL, ""}
    /\ storage[id].idToken \notin {NULL, ""}

InTrace(x) == \E i \in DOMAIN trace : trace[i] = x

PushOps == {"setAuthenticatedAndFireEvent", "setUnauthenticatedAndFireEvent", "setAuthorizationData"}

\* the configuration list the last call composed its aggregate from
PushedList ==
    IF call.op = "setAuthenticatedAndFireEvent" THEN call.arg
    ELSE IF call.op = "setUnauthenticatedAndFireEvent" THEN <<call.arg>>
    ELSE <<call.arg.configId>>

----------------------------------------------------------------------------
(* C1 *)

----------------------------------------------------------------------------
(* C2 *)

\* C2 as stated: when setAuthenticatedAndFireEvent is called twice in a row
\* and the second aggregate is deep-equal to the first, the subscriber of
\* authenticated$ gets no notification for the second call.
C2_NoSecondNotification ==
    [][(/\ call.op = "setAuthenticatedAndFireEvent"
        /\ call'.op = "setAuthenticatedAndFireEvent"
        /\ authenticatedInternal'.ref # authenticatedInternal.ref
        /\ authenticatedInternal'.result = authenticatedInternal.result)
       => notified' = <<>>]_vars

----------------------------------------------------------------------------
(* C3 *)

\* C3 as stated: with two or more active configurations, right after any of
\* setAuthorizationData, setAuthenticatedAndFireEvent and
\* setUnauthenticatedAndFireEvent, an aggregate with isAuthenticated = true
\* means every active configuration is authenticated.
C3_AggregateCoversAllActiveConfigs ==
    (/\ Cardinality(ConfigIds) >= 2
     /\ call.op \in PushOps
     /\ Aggregate.isAuthenticated)
    => \A id \in ConfigIds : BothTokensStored(id)

\* the same, for the case C1's forced flag plays no part in: the aggregate
\* pushed by setAuthorizationData for a configuration that is authenticated
C3_AfterSetAuthorizationData ==
    (/\ Cardinality(ConfigIds) >= 2
     /\ call.op = "setAuthorizationData"
     /\ BothTokensStored(call.arg.configId)
     /\ Aggregate.isAuthenticated)
    => \A id \in ConfigIds : BothTokensStored(id)

----------------------------------------------------------------------------
(* C4 *)

EveryEntryAuthenticated == \A i \in DOMAIN Entries : Entries[i].isAuthenticated

\* the entries are those of the list the last call passed, in its order
EntriesFollowInput ==
    call.op \in PushOps =>
        /\ Len(Entries) = Len(PushedList)
        /\ \A i \in DOMAIN Entries : Entries[i].configId = PushedList[i]

\* C4 as stated: the current aggregate, the initial value included, has
\* isAuthenticated = true iff every entry of allConfigsAuthenticated is
\* true, with one entry per input configuration in input order.
C4_AggregateIffEveryEntry ==
    (authenticatedInternal.ref = 0 \/ Entries # <<>>) =>
        /\ Aggregate.isAuthenticated <=> EveryEntryAuthenticated
        /\ EntriesFollowInput

\* C4 amended: a current aggregate with a non-empty per-config sequence has
\* isAuthenticated = true iff every entry is true, and after every push
\* there is one entry per input configuration, in input order.
C4_NonEmptyAggregateIffEveryEntry ==
    /\ Entries # <<>> => (Aggregate.isAuthenticated <=> EveryEntryAuthenticated)
    /\ EntriesFollowInput

\* a list of two configurations was pushed, the first authenticated, the
\* second not
C4_Witness ==
    /\ call.op = "setAuthenticatedAndFireEvent"
    /\ Len(Entries) = 2
    /\ Entries[1].isAuthenticated
    /\ ~Entries[2].isAuthenticated
    /\ Entries[1].configId # Entries[2].configId

----------------------------------------------------------------------------
(* C5 *)

\* C5 as stated: an aggregate whose per-config sequence is empty has
\* isAuthenticated = false, also after setAuthenticatedAndFireEvent([]).
C5_EmptyAggregateIsUnauthenticated ==
    Entries = <<>> => ~Aggregate.isAuthenticated

----------------------------------------------------------------------------
(* C6 *)

\* C6: isAuthenticated(config) returns true iff both an access token and an
\* id token are stored non-empty for config, whatever the stored expiry and
\* the last published aggregate are.
C6_IsAuthenticatedIffBothTokens ==
    call.op = "isAuthenticated" => (ret <=> BothTokensStored(call.arg))

\* isAuthenticated(c) returned false while the published aggregate says c is
\* authenticated and an expiry is stored for c
C6_Witness ==
    /\ call.op = "isAuthenticated"
    /\ ret = FALSE
    /\ storage[call.arg].authzData = "at"
    /\ storage[call.arg].access_token_expires_at # <<>>
    /\ Aggregate.isAuthenticated
    /\ \E i \in DOMAIN Entries :
           Entries[i] = [configId |-> call.arg, isAuthenticated |-> TRUE]

----------------------------------------------------------------------------
(* C7 *)

ExpiryCalls ==
    {"hasIdTokenExpired", "validateAccessTokenNotExpired",
     "fireEvent:IdTokenExpired", "fireEvent:TokenExpired"}

\* C7: when isAuthenticated(config) is false, areAuthStorageTokensValid
\* returns false, calls neither expiry check of the token validator and
\* fires neither expiry event.
C7_NotAuthenticatedSkipsExpiry ==
    (call.op = "areAuthStorageTokensValid" /\ ~BothTokensStored(call.arg.configId)) =>
        /\ ret = FALSE
        /\ \A x \in ExpiryCalls : ~InTrace(x)

\* areAuthStorageTokensValid was called for a configuration that is not
\* authenticated, has the id-token check enabled, and whose stored access
\* token expiry has passed
C7_Witness ==
    /\ call.op = "areAuthStorageTokensValid"
    /\ ~BothTokensStored(call.arg.configId)
    /\ call.arg.enableIdTokenExpiredValidationInRenew
    /\ storage[call.arg.configId].access_token_expires_at # <<>>
    /\ storage[call.arg.configId].access_token_expires_at[1] <= now

----------------------------------------------------------------------------
(* C8 *)

\* C8: with enableIdTokenExpiredValidationInRenew = false,
\* hasIdTokenExpiredAndRenewCheckIsEnabled returns false and fires no
\* IdTokenExpired event, and for an authenticated configuration
\* areAuthStorageTokensValid returns the negation of
\* hasAccessTokenExpiredIfExpiryExists.
C8_DisabledIdTokenCheckIsSkipped ==
    /\ (/\ call.op = "hasIdTokenExpiredAndRenewCheckIsEnabled"
        /\ ~call.arg.enableIdTokenExpiredValidationInRenew)
       => (ret = FALSE /\ ~InTrace("fireEvent:IdTokenExpired"))
    /\ (/\ call.op = "areAuthStorageTokensValid"
        /\ ~call.arg.enableIdTokenExpiredValidationInRenew
        /\ BothTokensStored(call.arg.configId))
       => /\ ret = ~hasAccessTokenExpiredIfExpiryExists(storage, call.arg, now).ret
          /\ ~InTrace("fireEvent:IdTokenExpired")
          /\ ~InTrace("hasIdTokenExpired")

\* areAuthStorageTokensValid returned true for an authenticated configuration
\* with the check disabled whose id token has expired
C8_Witness ==
    /\ call.op = "areAuthStorageTokensValid"
    /\ ~call.arg.enableIdTokenExpiredValidationInRenew
    /\ BothTokensStored(call.arg.configId)
    /\ hasIdTokenExpired(storage[call.arg.configId].idToken,
                         call.arg.renewTimeBeforeTokenExpiresInSeconds, now)
    /\ ret = TRUE

----------------------------------------------------------------------------
(* C9 *)

\* C9: setUnauthenticatedAndFireEvent(config) resets the stored state of
\* config and then pushes; right after it isAuthenticated(config) is false,
\* the pushed aggregate is {false, [{config, false}]}, the subscriber it
\* notifies sees the storage already reset, and the stored state of every
\* other configuration is as before.
C9_SetUnauthenticated ==
    [][call'.op = "setUnauthenticatedAndFireEvent" =>
        /\ ~(storage'[call'.arg].authzData \notin {NULL, ""}
             /\ storage'[call'.arg].idToken \notin {NULL, ""})
        /\ storage'[call'.arg] = EmptyEntry
        /\ authenticatedInternal'.result =
               [isAuthenticated |-> FALSE,
                allConfigsAuthenticated |->
                    <<[configId |-> call'.arg, isAuthenticated |-> FALSE]>>]
        /\ trace' = <<"resetAuthStateInStorage", "authenticatedInternal$.next">>
        /\ \A i \in DOMAIN notified' : notified'[i].storage[call'.arg] = EmptyEntry
        /\ \A d \in ConfigIds \ {call'.arg} : storage'[d] = storage[d]]_vars

\* setUnauthenticatedAndFireEvent(c) was called, notified the subscriber, and
\* another configuration still has both tokens stored
C9_Witness ==
    /\ call.op = "setUnauthenticatedAndFireEvent"
    /\ notified # <<>>
    /\ \E d \in ConfigIds \ {call.arg} : BothTokensStored(d)

----------------------------------------------------------------------------
(* C10 *)

\* C10 as stated: setAuthorizationData at time T with expires_in = E > 0
\* stores exactly T + E * 1000 under access_token_expires_at.
C10_StoresNowPlusExpiresIn ==
    (call.op = "setAuthorizationData" /\ HasExpiresIn(call.arg.authResult)) =>
        storage[call.arg.configId].access_token_expires_at =
            <<call.arg.time + call.arg.authResult[1].expires_in[1] * 1000>>

\* C10 amended: it stores T truncated to whole seconds, plus E * 1000; that
\* is T + E * 1000 exactly when T is a multiple of 1000.
C10_StoresWholeSecondPlusExpiresIn ==
    (call.op = "setAuthorizationData" /\ HasExpiresIn(call.arg.authResult)) =>
        LET T == call.arg.time
            E == call.arg.authResult[1].expires_in[1]
            stored == storage[call.arg.configId].access_token_expires_at
        IN  /\ stored = <<(T - (T % 1000)) + E * 1000>>
            /\ (stored = <<T + E * 1000>>) <=> (T % 1000 = 0)

\* setAuthorizationData was called with expires_in > 0 at a time that is not
\* a whole second
C10_Witness ==
    /\ call.op = "setAuthorizationData"
    /\ HasExpiresIn(call.arg.authResult)
    /\ call.arg.time % 1000 # 0

----------------------------------------------------------------------------
(* C11 *)

GetterOps == {"getAccessToken", "getIdToken", "getRefreshToken", "getAuthenticationResult"}

\* C11: while isAuthenticated(config) is false, each of getAccessToken,
\* getIdToken, getRefreshToken and getAuthenticationResult returns null: no
\* stored value is read or decoded, so nothing is thrown and no stored token
\* is returned, whatever the published aggregate says.
C11_GettersReturnNullWhenNotAuthenticated ==
    (call.op \in GetterOps /\ ~BothTokensStored(call.arg)) =>
        /\ ret = NULL
        /\ ~InTrace("decodeURIComponentSafely")
        /\ ~InTrace("getRefreshToken")
        /\ ~InTrace("getAuthenticationResult")
        /\ Len(trace) <= 2

\* getAccessToken returned null for a configuration whose stored access
\* token cannot be decoded and which the published aggregate shows as
\* authenticated
C11_Witness ==
    /\ call.op = "getAccessToken"
    /\ ret = NULL
    /\ storage[call.arg].authzData = "%"
    /\ Aggregate.isAuthenticated
    /\ Entries = <<[configId |-> call.arg, isAuthenticated |-> TRUE]>>

----------------------------------------------------------------------------
(* C14 *)

Count(x) == Cardinality({i \in DOMAIN trace : trace[i] = x})

\* C14: hasIdTokenExpiredAndRenewCheckIsEnabled fires one IdTokenExpired
\* event, and never TokenExpired, iff it returns true;
\* hasAccessTokenExpiredIfExpiryExists fires one TokenExpired event, and
\* never IdTokenExpired, iff it returns true; a call that returns false fires
\* nothing, and the event is the last thing the call does.
C14_EventIffExpired ==
    /\ call.op = "hasIdTokenExpiredAndRenewCheckIsEnabled" =>
           /\ Count("fireEvent:IdTokenExpired") = (IF ret THEN 1 ELSE 0)
           /\ Count("fireEvent:TokenExpired") = 0
           /\ ret => trace[Len(trace)] = "fireEvent:IdTokenExpired"
    /\ call.op = "hasAccessTokenExpiredIfExpiryExists" =>
           /\ Count("fireEvent:TokenExpired") = (IF ret THEN 1 ELSE 0)
           /\ Count("fireEvent:IdTokenExpired") = 0
           /\ ret => trace[Len(trace)] = "fireEvent:TokenExpired"

\* hasAccessTokenExpiredIfExpiryExists returned true for a stored expiry
C14_Witness ==
    /\ call.op = "hasAccessTokenExpiredIfExpiryExists"
    /\ ret = TRUE
    /\ storage[call.arg.configId].access_token_expires_at # <<>>
    /\ InTrace("fireEvent:TokenExpired")

----------------------------------------------------------------------------
(* C15 *)

\* the id-token check is enabled for the configuration and finds the stored
\* id token expired
IdTokenCheckFails(configuration) ==
    /\ configuration.enableIdTokenExpiredValidationInRenew
    /\ hasIdTokenExpired(storage[configuration.configId].idToken,
                         configuration.renewTimeBeforeTokenExpiresInSeconds, now)

\* the stored expiry of the access token has passed
AccessTokenCheckFails(configuration) ==
    ~validateAccessTokenNotExpired(storage[configuration.configId].access_token_expires_at,
                                   configuration.renewTimeBeforeTokenExpiresInSeconds, now)

Position(x) == CHOOSE i \in DOMAIN trace : trace[i] = x

\* C15: areAuthStorageTokensValid checks presence, then the id token, then
\* the access token, and stops at the first check that fails: when the id
\* token check reports expiry the access token expiry is neither read nor
\* evaluated and no TokenExpired event is fired; one call fires at most one
\* expiry event; it returns true iff all three checks pass.
C15_ChecksInOrderAndStop ==
    call.op = "areAuthStorageTokensValid" =>
        /\ ret <=> (/\ BothTokensStored(call.arg.configId)
                    /\ ~IdTokenCheckFails(call.arg)
                    /\ ~AccessTokenCheckFails(call.arg))
        /\ trace[1] = "getAccessToken"
        /\ (BothTokensStored(call.arg.configId) /\ IdTokenCheckFails(call.arg)) =>
               /\ Count("fireEvent:IdTokenExpired") = 1
               /\ ~InTrace("read:access_token_expires_at")
               /\ ~InTrace("validateAccessTokenNotExpired")
               /\ ~InTrace("fireEvent:TokenExpired")
        /\ (InTrace("hasIdTokenExpired") /\ InTrace("validateAccessTokenNotExpired")) =>
               Position("hasIdTokenExpired") < Position("validateAccessTokenNotExpired")
        /\ Count("fireEvent:IdTokenExpired") + Count("fireEvent:TokenExpired") <= 1

\* areAuthStorageTokensValid was called for an authenticated configuration
\* whose id token and access token have both expired
C15_Witness ==
    /\ call.op = "areAuthStorageTokensValid"
    /\ BothTokensStored(call.arg.configId)
    /\ IdTokenCheckFails(call.arg)
    /\ AccessTokenCheckFails(call.arg)
    /\ ret = FALSE

----------------------------------------------------------------------------
(* C16 *)

\* C16: setAuthorizationData writes the access token, then the expiry (when
\* expires_in is given), then pushes the aggregate once; a subscriber notified
\* by the call sees storage that holds the new access token and the new
\* expiry.
C16_WriteThenPushOnce ==
    call.op = "setAuthorizationData" =>
        LET id == call.arg.configId
            given == HasExpiresIn(call.arg.authResult)
        IN  /\ trace = <<"write:authzData">>
                       \o (IF given THEN <<"write:access_token_expires_at">> ELSE <<>>)
                       \o <<"authenticatedInternal$.next">>
            /\ Len(notified) <= 1
            /\ authenticatedInternal.ref = nextRef - 1
            /\ storage[id].authzData = call.arg.accessToken
            /\ \A i \in DOMAIN notified :
                   /\ notified[i].result = Aggregate
                   /\ notified[i].storage[id].authzData = call.arg.accessToken
                   /\ given => /\ notified[i].storage[id].access_token_expires_at # <<>>
                               /\ notified[i].storage[id].access_token_expires_at
                                      = storage[id].access_token_expires_at

\* setAuthorizationData with expires_in notified the subscriber, at a time
\* later than the start, so that the expiry it wrote is a new one
C16_Witness ==
    /\ call.op = "setAuthorizationData"
    /\ HasExpiresIn(call.arg.authResult)
    /\ call.arg.accessToken = "at"
    /\ call.arg.time > 0
    /\ notified # <<>>

----------------------------------------------------------------------------
(* C17 *)

\* C17: setAuthorizationData with authResult absent, or expires_in absent or
\* 0, leaves the access_token_expires_at record of the configuration as it
\* was while storing the new access token, and
\* hasAccessTokenExpiredIfExpiryExists goes on deciding by the record that
\* is stored.
C17_ExpiryKeptWithoutExpiresIn ==
    [][/\ (call'.op = "setAuthorizationData" /\ ~HasExpiresIn(call'.arg.authResult)) =>
              /\ storage'[call'.arg.configId].access_token_expires_at
                     = storage[call'.arg.configId].access_token_expires_at
              /\ storage'[call'.arg.configId].authzData = call'.arg.accessToken
       /\ call'.op = "hasAccessTokenExpiredIfExpiryExists" =>
              LET stored == storage'[call'.arg.configId].access_token_expires_at
              IN  ret' <=> /\ stored # <<>>
                           /\ stored[1] - call'.arg.renewTimeBeforeTokenExpiresInSeconds * 1000
                                  <= now'
      ]_vars

\* setAuthorizationData without expires_in stored a new access token while
\* an expiry written by an earlier call, already in the past, stays stored
C17_Witness ==
    /\ call.op = "setAuthorizationData"
    /\ ~HasExpiresIn(call.arg.authResult)
    /\ call.arg.accessToken = "at"
    /\ storage[call.arg.configId].access_token_expires_at # <<>>
    /\ storage[call.arg.configId].access_token_expires_at[1] <= now

----------------------------------------------------------------------------
(* C19 *)

\* C19: getAccessToken and getIdToken never return the empty string: each
\* returns null exactly when the configuration is not authenticated, and
\* otherwise the decoded stored token, which is not empty (or
\* decodeURIComponent throws); getRefreshToken returns the empty string only
\* for an authenticated configuration with no refresh token stored.
C19_NoEmptyAccessOrIdToken ==
    /\ call.op = "getAccessToken" =>
           /\ ret # ""
           /\ (ret = NULL) <=> ~BothTokensStored(call.arg)
           /\ BothTokensStored(call.arg) => ret = decodeURIComponent(storage[call.arg].authzData)
    /\ call.op = "getIdToken" =>
           /\ ret # ""
           /\ (ret = NULL) <=> ~BothTokensStored(call.arg)
           /\ BothTokensStored(call.arg) => ret = decodeURIComponent(storage[call.arg].idToken)
    /\ (call.op = "getRefreshToken" /\ ret = "") =>
           /\ BothTokensStored(call.arg)
           /\ storage[call.arg].refreshToken \in {NULL, ""}

\* getRefreshToken returned the empty string
C19_Witness ==
    /\ call.op = "getRefreshToken"
    /\ ret = ""
    /\ BothTokensStored(call.arg)

----------------------------------------------------------------------------
(* ConfigValidationService: what the claims read *)

\* the rule calls and the logger calls of the last validation, in order
RuleCalls == LET IsRule(e) == e.kind = "rule" IN SelectSeq(trace, IsRule)

Logs == LET IsLog(e) == e.kind # "rule" IN SelectSeq(trace, IsLog)

\* the messages the registered rules produce for configuration c
Produced(c) ==
    UNION {{Msg[RuleNames[r]][n] : n \in 1..rules[RuleNames[r]][c].count} : r \in DOMAIN RuleNames}

RuleIndex(m) ==
    CHOOSE r \in DOMAIN RuleNames : \E n \in DOMAIN Msg[RuleNames[r]] : Msg[RuleNames[r]][n] = m

MsgIndex(m) ==
    CHOOSE n \in DOMAIN Msg[RuleNames[RuleIndex(m)]] : Msg[RuleNames[RuleIndex(m)]][n] = m

LevelOf(c, m) == rules[RuleNames[RuleIndex(m)]][c].level

HasErrorMessage(c) == \E m \in Produced(c) : LevelOf(c, m) = "error"

HasWarningMessage(c) == \E m \in Produced(c) : LevelOf(c, m) = "warning"

\* C12: validateConfig returns true iff the rule results for the
\* configuration hold no error-level message, and validateConfigs returns
\* true iff that holds for every element; warning-level messages never
\* change either result.
C12_TrueIffNoErrorMessage ==
    /\ call.op = "validateConfig" => ret = ~HasErrorMessage(call.arg)
    /\ call.op = "validateConfigs" =>
           ret = (\A j \in DOMAIN call.arg : ~HasErrorMessage(call.arg[j]))

\* a list whose first element has warnings only and whose second element has
\* an error next to a warning: the result is false
C12_Witness ==
    /\ call.op = "validateConfigs"
    /\ Len(call.arg) = 2
    /\ HasWarningMessage(call.arg[1]) /\ ~HasErrorMessage(call.arg[1])
    /\ HasWarningMessage(call.arg[2]) /\ HasErrorMessage(call.arg[2])
    /\ ret = FALSE

HasDuplicate(list) == \E i, j \in DOMAIN list : i # j /\ list[i] = list[j]

\* C13: in validateConfigs every multi-config rule is handed the complete
\* list of configurations on each per-element pass, so a list in which two
\* configurations share a configId makes validateConfigs return false.
C13_MultiRulesSeeAllConfigs ==
    call.op = "validateConfigs" =>
        /\ \A i \in DOMAIN RuleCalls : RuleCalls[i].what = call.arg
        /\ HasDuplicate(call.arg) => ret = FALSE

\* e is logged before f in one pass: errors before warnings, then by rule,
\* then by message
LoggedBefore(e, f) ==
    \/ e.kind = "logError" /\ f.kind = "logWarning"
    \/ /\ e.kind = f.kind
       /\ \/ RuleIndex(e.what) < RuleIndex(f.what)
          \/ RuleIndex(e.what) = RuleIndex(f.what) /\ MsgIndex(e.what) < MsgIndex(f.what)

\* logs is what one pass for configuration c hands the logger
PassLogs(logs, c) ==
    /\ \A i \in DOMAIN logs :
           /\ logs[i].who = c
           /\ logs[i].what \in Produced(c)
           /\ logs[i].kind = IF LevelOf(c, logs[i].what) = "error" THEN "logError" ELSE "logWarning"
    /\ \A m \in Produced(c) : Cardinality({i \in DOMAIN logs : logs[i].what = m}) = 1
    /\ \A i, j \in DOMAIN logs : i < j => LoggedBefore(logs[i], logs[j])

\* C18: in one validation pass the logger receives every error-level and
\* every warning-level message exactly once, keyed by the configId: the
\* errors in rule order then message order, followed by the warnings in the
\* same order.
C18_LogsFlattenedInOrder ==
    call.op = "validateConfig" => PassLogs(Logs, call.arg)

\* the first rule warns twice and the second rule reports two errors: the
\* errors are logged first
C18_Witness ==
    /\ call.op = "validateConfig"
    /\ rules["ruleA"][call.arg] = [level |-> "warning", count |-> 2]
    /\ rules["ruleB"][call.arg] = [level |-> "error", count |-> 2]
    /\ Logs = <<[kind |-> "logError", who |-> call.arg, what |-> "B1"],
                [kind |-> "logError", who |-> call.arg, what |-> "B2"],
                [kind |-> "logWarning", who |-> call.arg, what |-> "A1"],
                [kind |-> "logWarning", who |-> call.arg, what |-> "A2"]>>

\* the number of messages logged for the first j elements of list
RECURSIVE LoggedUpTo(_, _)
LoggedUpTo(list, j) ==
    IF j = 0 THEN 0 ELSE LoggedUpTo(list, j - 1) + Cardinality(Produced(list[j]))

\* C20: validateConfigs does not stop at the first failing configuration:
\* the rules are run and their messages are logged for every element of the
\* list, in list order, also for the elements after one that failed; for
\* the empty list it returns true and logs nothing.
C20_EveryElementIsValidated ==
    call.op = "validateConfigs" =>
        /\ Len(RuleCalls) = Len(call.arg) * Len(allMultipleConfigRules)
        /\ Len(Logs) = LoggedUpTo(call.arg, Len(call.arg))
        /\ \A j \in DOMAIN call.arg :
               PassLogs(SubSeq(Logs, LoggedUpTo(call.arg, j - 1) + 1, LoggedUpTo(call.arg, j)),
                        call.arg[j])
        /\ call.arg = <<>> => ret = TRUE /\ trace = <<>>

\* the first element fails; the messages of the second, different element
\* are logged all the same
C20_Witness ==
    /\ call.op = "validateConfigs"
    /\ Len(call.arg) = 2
    /\ call.arg[1] # call.arg[2]
    /\ HasErrorMessage(call.arg[1])
    /\ Produced(call.arg[2]) # {}
    /\ \E i \in DOMAIN Logs : Logs[i].who = call.arg[2]
    /\ ret = FALSE

====
